---- MODULE Spec2Model ----
(***************************************************************************)
(* Model of etl_connector.py: the OTX pulse ETL connector.                 *)
(*                                                                         *)
(* One sequential process: module-level start-up, run_etl, the generator   *)
(* extract_pulses driving fetch_with_retries, and load_pulses writing to   *)
(* the collection.  The HTTP server, the process environment and the       *)
(* database are the environment: their answers are chosen by \E.           *)
(*                                                                         *)
(* Python values are tagged records: None, Str (a sequence of character    *)
(* codes), List (a sequence of values), Dict (a function from keys).       *)
(* Identifiers, cursors and environment values are strings or None; other  *)
(* JSON scalar types (numbers, booleans) are not part of the model.        *)
(***************************************************************************)
EXTENDS Integers, Sequences, FiniteSets, TLC

(***************************************************************************)
(* Bounds of the model.                                                    *)
(***************************************************************************)
MaxBatch == 2      \* records per page served by the free server
MaxChain == 6      \* pages of the longest fixed chain (one more than MAX_PAGES)
MaxK     == 2      \* records per page of a fixed chain
MaxRuns  == 2      \* successive runs of the process against one store

(***************************************************************************)
(* Program constants.                                                      *)
(***************************************************************************)
MAX_PAGES      == 5
retries        == 3
backoff_factor == 2

(***************************************************************************)
(* Python values.                                                          *)
(***************************************************************************)
None    == [type |-> "NoneType"]
Str(s)  == [type |-> "str", val |-> s]
List(q) == [type |-> "list", val |-> q]
Dict(m) == [type |-> "dict", val |-> m]

\* bool(v): None, "" and [] and {} are false
Truthy(v) ==
    CASE v.type = "NoneType" -> FALSE
      [] v.type = "str"      -> Len(v.val) > 0
      [] v.type = "list"     -> Len(v.val) > 0
      [] v.type = "dict"     -> DOMAIN v.val # {}

\* isinstance(v, dict), isinstance(v, list)
IsDict(v) == v.type = "dict"

\* variant: a list that is not empty
IsList_NonEmpty(v) == v.type = "list" /\ Len(v.val) > 0

IsList(v) == v.type = "list"

\* m.get(key, default) on the mapping m
Get(m, key, default) == IF key \in DOMAIN m THEN m[key] ELSE default

\* os.getenv(name, default): the value when set, else the default
getenv(e, name, default) == IF name \in DOMAIN e THEN Str(e[name]) ELSE default

\* int(s) of a str: defined for a non-empty run of decimal digits
IsIntLiteral(s) == Len(s) > 0 /\ \A i \in 1..Len(s) : s[i] \in 48..57

RECURSIVE ParseInt(_)
ParseInt(s) ==
    IF s = <<>> THEN 0
    ELSE 10 * ParseInt(SubSeq(s, 1, Len(s) - 1)) + (s[Len(s)] - 48)

(***************************************************************************)
(* Configuration read at import time (lines 21-27).                        *)
(***************************************************************************)
BASE_URL == Str(<<1>>)

\* the environments a run can start in: OTX_API_KEY unset, empty or set;
\* REQUEST_TIMEOUT unset, "5", empty or "x".  An option is <<>> (unset)
\* or <<s>> (set to the string s).
Bind(name, o) == [n \in (IF o = <<>> THEN {} ELSE {name}) |-> o[1]]

Envs ==
    { Bind("OTX_API_KEY", k) @@ Bind("REQUEST_TIMEOUT", t) :
        k \in {<<>>, << <<>> >>, << <<107>> >>},
        t \in {<<>>, << <<53>> >>, << <<>> >>, << <<120>> >>} }

(***************************************************************************)
(* The HTTP server.  A free server answers any request with any payload    *)
(* of Payloads; a chain server serves a fixed chain of n pages of k        *)
(* records each, with identifiers unique across the chain, the same on     *)
(* every run; a pages server is a free server whose pages hold at most one  *)
(* record.  The transport outcome of each request is free in all three.    *)
(***************************************************************************)
X == Str(<<88>>)
Y == Str(<<89>>)

RawPulses ==
    { [id |-> Str(<<1>>), name |-> X],
      [id |-> Str(<<1>>), name |-> Y, tags |-> List(<< Str(<<116>>) >>)],
      [id |-> Str(<<2>>)],
      [name |-> X],
      [id |-> None, name |-> X, tags |-> None],
      [id |-> Str(<<>>), name |-> X] }

Batches == UNION { [1..n -> RawPulses] : n \in 0..MaxBatch }

\* the values of "next" a free server sends; <<>> is "key absent"
Cursors == { <<>>, <<None>>, <<Str(<<>>)>>, <<Str(<<2>>)>> }

Payloads ==
    { List(<<>>) }
    \cup { Dict(Bind("next", c)) : c \in {<<>>, <<Str(<<2>>)>>} }
    \cup { Dict([results |-> None]), Dict([results |-> X, next |-> Str(<<2>>)]) }
    \cup { Dict([results |-> List(b)] @@ Bind("next", c)) :
             b \in Batches, c \in Cursors }

\* the payloads told apart by what extract_pulses looks at: the shape of the
\* payload, whether "results" holds records, and the "next" cursor
PagePayloads ==
    { p \in Payloads :
        (IsDict(p) /\ IsList(Get(p.val, "results", None)))
            => p.val["results"].val \in { <<>>, << [id |-> Str(<<1>>), name |-> X] >> } }

ChainPage(n, k, i) ==
    Dict([results |-> List([j \in 1..k |-> [id |-> Str(<<i, j>>), name |-> X]]),
          next    |-> IF i < n THEN Str(<<i + 1>>) ELSE None])

Servers ==
    { [mode |-> "free"] }
    \cup { [mode |-> "chain", n |-> n, k |-> k] : n \in 1..MaxChain, k \in 0..MaxK }

\* the payloads server s can send in a 200 response to a GET of address u
PayloadsAt(s, u) ==
    IF s.mode = "free" THEN Payloads
    ELSE IF s.mode = "pages" THEN PagePayloads
    ELSE { ChainPage(s.n, s.k, u.val[1]) }

\* what a request can come back with: a status code or a RequestException
Outcomes == {"200", "429", "other", "neterr"}

(***************************************************************************)
(* fetch_with_retries (lines 37-56), one iteration of its for loop.        *)
(***************************************************************************)
RECURSIVE Pow2(_)
Pow2(n) == IF n = 0 THEN 1 ELSE 2 * Pow2(n - 1)

\* variant: wait = backoff_factor * (attempt + 1)
Backoff_Linear(attempt) == backoff_factor * (attempt + 1)

\* lines 45 and 52: wait = backoff_factor * (2 ** attempt)
Backoff(attempt) == backoff_factor * Pow2(attempt)

\* variant: every status other than 200 is retried
Disposition_RetryAll(outcome) ==
    IF outcome = "200" THEN "return" ELSE "sleep"

\* lines 42-54: what the loop body does with an outcome
Disposition(outcome) ==
    CASE outcome = "200"    -> "return"
      [] outcome = "429"    -> "sleep"
      [] outcome = "neterr" -> "sleep"
      [] OTHER              -> "break"

(***************************************************************************)
(* transform_pulse (lines 84-95).                                          *)
(***************************************************************************)
\* variant: pulse.get("tags") and pulse.get("references"), without defaults
transform_pulse_no_defaults(pulse) ==
    [ _id         |-> Get(pulse, "id", None),
      name        |-> Get(pulse, "name", None),
      description |-> Get(pulse, "description", None),
      author_name |-> Get(pulse, "author_name", None),
      created     |-> Get(pulse, "created", None),
      modified    |-> Get(pulse, "modified", None),
      tags        |-> Get(pulse, "tags", None),
      references  |-> Get(pulse, "references", None) ]

\* variant: the identifier is read from "id" or, failing that, from "_id"
transform_pulse_keep_id(pulse) ==
    [ _id         |-> Get(pulse, "id", Get(pulse, "_id", None)),
      name        |-> Get(pulse, "name", None),
      description |-> Get(pulse, "description", None),
      author_name |-> Get(pulse, "author_name", None),
      created     |-> Get(pulse, "created", None),
      modified    |-> Get(pulse, "modified", None),
      tags        |-> Get(pulse, "tags", List(<<>>)),
      references  |-> Get(pulse, "references", List(<<>>)) ]

transform_pulse(pulse) ==
    [ _id         |-> Get(pulse, "id", None),
      name        |-> Get(pulse, "name", None),
      description |-> Get(pulse, "description", None),
      author_name |-> Get(pulse, "author_name", None),
      created     |-> Get(pulse, "created", None),
      modified    |-> Get(pulse, "modified", None),
      tags        |-> Get(pulse, "tags", List(<<>>)),
      references  |-> Get(pulse, "references", List(<<>>)) ]

(***************************************************************************)
(* collection.update_one({"_id": id}, {"$set": doc}, upsert=True)          *)
(* (lines 106-110).  A collection is a set of documents.                   *)
(***************************************************************************)
Matching(coll, id) == { d \in coll : "_id" \in DOMAIN d /\ d["_id"] = id }

\* $set: the fields of doc replace those of d, the other fields of d stay
SetFields(d, doc) ==
    [f \in DOMAIN d \cup DOMAIN doc |-> IF f \in DOMAIN doc THEN doc[f] ELSE d[f]]

\* variant: a plain insert, without the match on _id
update_one_insert(coll, id, doc) ==
    [coll |-> coll \cup {doc}, upserted |-> TRUE]

update_one(coll, id, doc) ==
    IF Matching(coll, id) = {}
    THEN [coll |-> coll \cup {doc}, upserted |-> TRUE]
    ELSE LET d == CHOOSE d \in Matching(coll, id) : TRUE
         IN  [coll |-> (coll \ {d}) \cup {SetFields(d, doc)}, upserted |-> FALSE]

\* the identifiers held by a collection
Ids(coll) == { d["_id"] : d \in coll }

(***************************************************************************)
(* State.                                                                  *)
(***************************************************************************)
VARIABLES
    pc,              \* where the process is
    env,             \* the process environment of this run
    server,          \* the server the runs talk to
    counting,        \* whether the requests and sleeps of a run are counted
    run,             \* number of the current run, from 1
    exitCode,        \* -1 while running, else the exit status of the process
    error,           \* what ended the process: "none", "config", "ValueError", "db"
    REQUEST_TIMEOUT, \* line 26
    opened, closed,  \* MongoClient(...) calls and client.close() calls of this run
    store,           \* the collection: a set of documents
    url, page_count, \* extract_pulses, lines 61-62
    data,            \* extract_pulses, line 66
    attempt,         \* fetch_with_retries, line 39
    pulses,          \* load_pulses: the records its for loop has still to visit
    upserts,         \* load_pulses, line 100
    total_upserts,   \* run_etl, line 122
    \* observations of the run, read by the properties only
    resp,            \* outcomes of the requests of the current fetch_with_retries call
    sleeps,          \* durations of the time.sleep calls of that call
    sent,            \* the payload of the last 200 response
    reqUrls,         \* the addresses those requests went to
    stop,            \* why extract_pulses ended: "none", "cond", "invalid", "noresults"
    logged_pages,    \* the count logged at line 81, -1 before
    yielded,         \* pages yielded by extract_pulses in this run
    yieldedIds,      \* the non-empty identifiers of the records of those pages
    lastNext,        \* the "next" of the last of those pages, as .get("next") reads it
    fetchFailed,     \* a fetch_with_retries call of this run returned None
    cursorAlways,    \* every payload received so far in this run was a page with a true "next"
    allEmpty,        \* every page yielded so far in this run had an empty results list
    requested,       \* a request was issued in this run
    nreq, nsleeps,   \* requests.get calls and time.sleep calls of this run
    writes,          \* update_one calls of the current load_pulses call
    skips,           \* "Skipping pulse with no ID." warnings of that call (line 104)
    idsBefore,       \* number of identifiers in the store when load_pulses was called
    batchLen,        \* number of records of the batch load_pulses was called with
    batchIds,        \* the non-empty identifiers of the records of that batch
    changed,         \* the store changed during this run
    emptyAtStart,    \* the store was empty when this run started
    prevClean        \* the previous run ended normally and none of its fetches failed

proc == <<pc, exitCode, error, REQUEST_TIMEOUT, opened, closed>>
page == <<url, page_count, data, attempt>>
load == <<pulses, upserts, total_upserts>>
call == <<resp, sleeps, sent, reqUrls>>
obs  == <<stop, logged_pages, yielded, yieldedIds, lastNext, fetchFailed,
          cursorAlways, allEmpty, requested, nreq, nsleeps,
          writes,
          skips, idsBefore, batchLen, batchIds, changed, emptyAtStart, prevClean>>
vars == <<proc, env, server, counting, run, store, page, load, call, obs>>

Init ==
    /\ pc = "start" /\ env \in Envs /\ server \in Servers /\ run = 1
    /\ counting = FALSE
    /\ exitCode = -1 /\ error = "none" /\ REQUEST_TIMEOUT = 0
    /\ opened = 0 /\ closed = 0 /\ store = {}
    /\ url = None /\ page_count = 0 /\ data = None /\ attempt = 0
    /\ pulses = <<>> /\ upserts = 0 /\ total_upserts = 0
    /\ resp = <<>> /\ sleeps = <<>> /\ sent = None /\ reqUrls = <<>>
    /\ stop = "none" /\ logged_pages = -1 /\ yielded = 0 /\ yieldedIds = {} /\ lastNext = None
    /\ fetchFailed = FALSE /\ cursorAlways = TRUE /\ allEmpty = TRUE
    /\ requested = FALSE /\ nreq = 0 /\ nsleeps = 0 /\ writes = 0 /\ skips = 0 /\ idsBefore = 0
    /\ batchLen = 0 /\ batchIds = {}
    /\ changed = FALSE /\ emptyAtStart = TRUE /\ prevClean = FALSE

\* the same start, with the requests and sleeps of each run counted, against a
\* server that may answer every request with any outcome and any of PagePayloads
FairInit ==
    /\ pc = "start" /\ env \in Envs /\ server = [mode |-> "pages"] /\ run = 1
    /\ counting = TRUE
    /\ exitCode = -1 /\ error = "none" /\ REQUEST_TIMEOUT = 0
    /\ opened = 0 /\ closed = 0 /\ store = {}
    /\ url = None /\ page_count = 0 /\ data = None /\ attempt = 0
    /\ pulses = <<>> /\ upserts = 0 /\ total_upserts = 0
    /\ resp = <<>> /\ sleeps = <<>> /\ sent = None /\ reqUrls = <<>>
    /\ stop = "none" /\ logged_pages = -1 /\ yielded = 0 /\ yieldedIds = {} /\ lastNext = None
    /\ fetchFailed = FALSE /\ cursorAlways = TRUE /\ allEmpty = TRUE
    /\ requested = FALSE /\ nreq = 0 /\ nsleeps = 0 /\ writes = 0 /\ skips = 0 /\ idsBefore = 0
    /\ batchLen = 0 /\ batchIds = {}
    /\ changed = FALSE /\ emptyAtStart = TRUE /\ prevClean = FALSE

(***************************************************************************)
(* Module level, lines 21-34: read the configuration, check the key.       *)
(***************************************************************************)
\* variant: if OTX_API_KEY is None
KeyMissing_NoneOnly(key) == key = None

\* line 30: if not OTX_API_KEY
KeyMissing(key) == ~Truthy(key)

Startup ==
    /\ pc = "start"
    /\ LET key == getenv(env, "OTX_API_KEY", None)
           t   == getenv(env, "REQUEST_TIMEOUT", Str(<<50, 48>>))
       IN  IF ~IsIntLiteral(t.val)
           THEN \* line 26: int() raises ValueError, nothing catches it
                /\ pc' = "exited" /\ exitCode' = 1 /\ error' = "ValueError"
                /\ UNCHANGED REQUEST_TIMEOUT
           ELSE IF KeyMissing(key)
           THEN \* lines 30-32: logging.error, sys.exit(1)
                /\ pc' = "exited" /\ exitCode' = 1 /\ error' = "config"
                /\ REQUEST_TIMEOUT' = ParseInt(t.val)
           ELSE /\ pc' = "main" /\ REQUEST_TIMEOUT' = ParseInt(t.val)
                /\ UNCHANGED <<exitCode, error>>
    /\ UNCHANGED <<opened, closed, env, server, counting, run, store, page, load, call, obs>>

(***************************************************************************)
(* run_etl, lines 117-123: open the client, create the generator.          *)
(***************************************************************************)
run_etl_open ==
    /\ pc = "main"
    /\ opened' = opened + 1
    /\ total_upserts' = 0
    /\ url' = BASE_URL /\ page_count' = 0
    /\ pc' = "loop"
    /\ UNCHANGED <<exitCode, error, REQUEST_TIMEOUT, closed, env, server, counting, run, store,
                   data, attempt, pulses, upserts, call, obs>>

(***************************************************************************)
(* extract_pulses, line 64: the while condition; lines 65-66 call          *)
(* fetch_with_retries, line 81 logs the page count when the loop ends.     *)
(***************************************************************************)
\* variant: page_count <= MAX_PAGES
Continue_Inclusive(u, n) == Truthy(u) /\ n <= MAX_PAGES

Continue(u, n) == Truthy(u) /\ n < MAX_PAGES

extract_pulses_loop ==
    /\ pc = "loop"
    /\ IF Continue(url, page_count)
       THEN /\ pc' = "fetch" /\ attempt' = 0
            /\ resp' = <<>> /\ sleeps' = <<>> /\ sent' = None /\ reqUrls' = <<>>
            /\ UNCHANGED <<stop, logged_pages>>
       ELSE /\ pc' = "finish" /\ stop' = "cond" /\ logged_pages' = page_count
            /\ UNCHANGED <<attempt, call>>
    /\ UNCHANGED <<exitCode, error, REQUEST_TIMEOUT, opened, closed, env, server, counting, run,
                   store, url, page_count, data, load, yielded, yieldedIds, lastNext, fetchFailed,
                   cursorAlways, allEmpty, requested, nreq, nsleeps, writes, skips, idsBefore, batchLen,
                   batchIds, changed, emptyAtStart, prevClean>>

(***************************************************************************)
(* fetch_with_retries, lines 39-56: one request and what follows it.       *)
(***************************************************************************)
\* variant: range(retries + 1)
InRange_OneMore(a) == a <= retries

\* line 39: for attempt in range(retries)
InRange(a) == a < retries

\* variant: requests.get(BASE_URL, ...)
RequestUrl_Base(u) == BASE_URL

\* line 41: requests.get(url, ...) with the url the function was called with
RequestUrl(u) == u

fetch_with_retries ==
    /\ pc = "fetch"
    /\ InRange(attempt)
    /\ \E o \in Outcomes :
         /\ resp' = Append(resp, o) /\ requested' = TRUE
         /\ reqUrls' = Append(reqUrls, RequestUrl(url)) /\ nreq' = IF counting THEN nreq + 1 ELSE nreq
         /\ CASE Disposition(o) = "return" ->
                   \E p \in PayloadsAt(server, RequestUrl(url)) :
                      /\ data' = p /\ sent' = p /\ pc' = "fetched"
                      /\ UNCHANGED <<attempt, sleeps, nsleeps, fetchFailed>>
              [] Disposition(o) = "sleep" ->
                   /\ sleeps' = Append(sleeps, Backoff(attempt))
                   /\ nsleeps' = IF counting THEN nsleeps + 1 ELSE nsleeps
                   /\ attempt' = attempt + 1
                   /\ IF InRange(attempt + 1)
                      THEN /\ pc' = "fetch"
                           /\ UNCHANGED <<data, fetchFailed>>
                      ELSE \* lines 55-56: the loop is over, return None
                           /\ pc' = "fetched" /\ data' = None /\ fetchFailed' = TRUE
                   /\ UNCHANGED sent
              [] OTHER ->
                   \* line 50: break, then lines 55-56
                   /\ pc' = "fetched" /\ data' = None /\ fetchFailed' = TRUE
                   /\ UNCHANGED <<attempt, sleeps, nsleeps, sent>>
    /\ UNCHANGED <<exitCode, error, REQUEST_TIMEOUT, opened, closed, env, server, counting, run,
                   store, url, page_count, load, stop, logged_pages, yielded, yieldedIds, lastNext,
                   cursorAlways, allEmpty, writes, skips, idsBefore, batchLen, batchIds, changed,
                   emptyAtStart, prevClean>>

(***************************************************************************)
(* extract_pulses, lines 68-77: check the payload, yield its results to    *)
(* the for loop of run_etl, which calls load_pulses (lines 123-124).       *)
(* After the yield the generator reads only data.get("next") (line 78):    *)
(* the results live on in pulses and data keeps the other keys.            *)
(***************************************************************************)
\* variant: continue in place of break
OnInvalid_Continue == "loop"

\* lines 70 and 75: break leaves the loop for line 81
OnInvalid == "finish"

extract_pulses_check ==
    /\ pc = "fetched"
    /\ IF ~IsDict(data)
       THEN /\ pc' = OnInvalid /\ stop' = "invalid" /\ logged_pages' = page_count
            /\ cursorAlways' = FALSE /\ UNCHANGED allEmpty
            /\ UNCHANGED <<data, load, yielded, yieldedIds, lastNext, writes, skips, idsBefore, batchLen,
                           batchIds>>
       ELSE IF ~IsList(Get(data.val, "results", None))
       THEN /\ pc' = OnInvalid /\ stop' = "noresults" /\ logged_pages' = page_count
            /\ cursorAlways' = FALSE /\ UNCHANGED allEmpty
            /\ UNCHANGED <<data, load, yielded, yieldedIds, lastNext, writes, skips, idsBefore, batchLen,
                           batchIds>>
       ELSE /\ pc' = "load"
            /\ pulses' = data.val["results"].val /\ upserts' = 0
            /\ data' = Dict([k \in DOMAIN data.val \ {"results"} |-> data.val[k]])
            /\ yielded' = yielded + 1
            /\ lastNext' = Get(data.val, "next", None)
            /\ writes' = 0 /\ skips' = 0 /\ idsBefore' = Cardinality(Ids(store))
            /\ LET batch == data.val["results"].val
               IN  /\ batchLen' = Len(batch)
                   /\ batchIds' = { batch[i]["id"] : i \in
                                      { j \in 1..Len(batch) :
                                          /\ "id" \in DOMAIN batch[j]
                                          /\ batch[j]["id"] # None
                                          /\ batch[j]["id"] # Str(<<>>) } }
                   /\ yieldedIds' = yieldedIds \cup batchIds'
            /\ cursorAlways' = (cursorAlways /\ Truthy(Get(data.val, "next", None)))
            /\ allEmpty' = (allEmpty /\ data.val["results"].val = <<>>)
            /\ UNCHANGED <<total_upserts, stop, logged_pages>>
    /\ resp' = <<>> /\ sleeps' = <<>> /\ sent' = None /\ reqUrls' = <<>>
    /\ UNCHANGED <<exitCode, error, REQUEST_TIMEOUT, opened, closed, env, server, counting, run,
                   store, url, page_count, attempt, fetchFailed, requested, nreq, nsleeps, changed,
                   emptyAtStart, prevClean>>

(***************************************************************************)
(* load_pulses, lines 101-112: one record of the batch.  The write may     *)
(* raise; the error leaves load_pulses and run_etl through the finally     *)
(* block (lines 129-131) and ends the process.                             *)
(***************************************************************************)
\* variant: if transformed["_id"] is None
NoId_NoneOnly(doc) == doc["_id"] = None

\* line 103: if not transformed["_id"]
NoId(doc) == ~Truthy(doc["_id"])

\* variant: break in place of continue
AfterSkip_Break(q) == <<>>

\* line 105: continue goes on with the rest of the batch
AfterSkip(q) == Tail(q)

\* variant: upserts += 1 after every write
CountUpsert_EveryWrite(n, result) == n + 1

\* lines 111-112: if result.upserted_id is not None: upserts += 1
CountUpsert(n, result) == IF result.upserted THEN n + 1 ELSE n

\* variant: client.close() after the try block, without finally
CloseClient_NoFinally(n, way) == IF way = "raise" THEN n ELSE n + 1

\* lines 129-131: client.close() runs on both ways out of the try block
CloseClient(n, way) == n + 1

load_pulses ==
    /\ pc = "load"
    /\ pulses # <<>>
    /\ LET transformed == transform_pulse(Head(pulses))
       IN  IF NoId(transformed)
           THEN /\ pulses' = AfterSkip(pulses) /\ skips' = skips + 1
                /\ UNCHANGED <<pc, exitCode, error, closed, store, upserts, writes,
                               changed>>
           ELSE /\ writes' = writes + 1 /\ UNCHANGED skips
                /\ \/ LET r == update_one(store, transformed["_id"], transformed)
                      IN  /\ store' = r.coll
                          /\ upserts' = CountUpsert(upserts, r)
                          /\ changed' = (changed \/ r.coll # store)
                          /\ pulses' = Tail(pulses)
                          /\ UNCHANGED <<pc, exitCode, error, closed>>
                   \/ /\ pc' = "exited" /\ exitCode' = 1 /\ error' = "db"
                      /\ closed' = CloseClient(closed, "raise")
                      /\ UNCHANGED <<store, upserts, changed, pulses>>
    /\ UNCHANGED <<REQUEST_TIMEOUT, opened, env, server, counting, run, page,
                   total_upserts, call, stop, logged_pages, yielded, yieldedIds, lastNext, fetchFailed,
                   cursorAlways, allEmpty, requested, nreq, nsleeps, idsBefore, batchLen, batchIds,
                   emptyAtStart, prevClean>>

(***************************************************************************)
(* load_pulses returns (line 113), run_etl adds the count (lines 125-126)  *)
(* and resumes the generator, which advances (lines 78-79).  The batch and *)
(* the payload are dead from here on and are dropped.                      *)
(***************************************************************************)
load_pulses_return ==
    /\ pc = "load"
    /\ pulses = <<>>
    /\ total_upserts' = total_upserts + upserts
    /\ url' = Get(data.val, "next", None)
    /\ page_count' = page_count + 1
    /\ pc' = "loop"
    /\ data' = None /\ upserts' = 0
    /\ writes' = 0 /\ skips' = 0 /\ idsBefore' = 0
    /\ batchLen' = 0 /\ batchIds' = {}
    /\ UNCHANGED <<pulses, exitCode, error, REQUEST_TIMEOUT, opened, closed, env, server, counting,
                   run, store, attempt, call, stop, logged_pages, yielded, yieldedIds, lastNext, fetchFailed,
                   cursorAlways, allEmpty, requested, nreq, nsleeps, changed, emptyAtStart, prevClean>>

(***************************************************************************)
(* run_etl, lines 128-131: log the total, close the client, return.        *)
(***************************************************************************)
run_etl_finish ==
    /\ pc = "finish"
    /\ closed' = CloseClient(closed, "return")
    /\ pc' = "exited" /\ exitCode' = 0
    /\ UNCHANGED <<error, REQUEST_TIMEOUT, opened, env, server, counting, run, store, page, load,
                   call, obs>>

(***************************************************************************)
(* The next scheduled run: a new process, the same server and store.       *)
(* Runs are repeated against chain and pages servers; with a free server   *)
(* the pages of one run already meet every content of the store that       *)
(* earlier pages can leave.                                                *)
(***************************************************************************)
NewRun ==
    /\ pc = "exited"
    /\ run < MaxRuns
    /\ server.mode # "free"
    /\ run' = run + 1
    /\ env' \in Envs
    /\ prevClean' = (exitCode = 0 /\ ~fetchFailed)
    /\ pc' = "start" /\ exitCode' = -1 /\ error' = "none" /\ REQUEST_TIMEOUT' = 0
    /\ opened' = 0 /\ closed' = 0
    /\ url' = None /\ page_count' = 0 /\ data' = None /\ attempt' = 0
    /\ pulses' = <<>> /\ upserts' = 0 /\ total_upserts' = 0
    /\ resp' = <<>> /\ sleeps' = <<>> /\ sent' = None /\ reqUrls' = <<>>
    /\ stop' = "none" /\ logged_pages' = -1 /\ yielded' = 0 /\ yieldedIds' = {} /\ lastNext' = None
    /\ fetchFailed' = FALSE /\ cursorAlways' = TRUE /\ allEmpty' = TRUE
    /\ requested' = FALSE /\ nreq' = 0 /\ nsleeps' = 0 /\ writes' = 0 /\ skips' = 0 /\ idsBefore' = 0
    /\ batchLen' = 0 /\ batchIds' = {}
    /\ changed' = FALSE /\ emptyAtStart' = (store = {})
    /\ UNCHANGED <<server, counting, store>>

Next ==
    \/ Startup
    \/ run_etl_open
    \/ extract_pulses_loop
    \/ fetch_with_retries
    \/ extract_pulses_check
    \/ load_pulses
    \/ load_pulses_return
    \/ run_etl_finish
    \/ NewRun

Spec == Init /\ [][Next]_vars

(***************************************************************************)
(* The process is one sequential thread: as long as every request, sleep   *)
(* and database write returns, the statement it stands at is executed.     *)
(* When the next run is started is up to the scheduler.                    *)
(***************************************************************************)
RunStep ==
    \/ Startup
    \/ run_etl_open
    \/ extract_pulses_loop
    \/ fetch_with_retries
    \/ extract_pulses_check
    \/ load_pulses
    \/ load_pulses_return
    \/ run_etl_finish

FairSpec == FairInit /\ [][Next]_vars /\ WF_vars(RunStep)

TypeOK ==
    /\ pc \in {"start", "main", "loop", "fetch", "fetched", "load", "finish", "exited"}
    /\ exitCode \in {-1, 0, 1}
    /\ page_count \in 0..MAX_PAGES
    /\ attempt \in 0..retries

(***************************************************************************)
(* Properties.                                                             *)
(***************************************************************************)
Min(a, b) == IF a < b THEN a ELSE b
Last(q) == q[Len(q)]
StrictlyIncreasing(q) == \A i \in 1..(Len(q) - 1) : q[i] < q[i + 1]
Transient(o) == o \in {"429", "neterr"}
AllTransient(q) == \A i \in 1..Len(q) : Transient(q[i])
Chain == server.mode = "chain"

\* C1: when a fetch_with_retries call gets three consecutive 429 responses
\* and the server would answer the next request with 200, the call returns
\* the payload of that response, after sleeps of strictly increasing length.
C1_ThreeRateLimitsThenSuccess ==
    ( /\ pc = "fetched"
      /\ Len(resp) >= 3
      /\ \A i \in 1..3 : resp[i] = "429"
      /\ (Len(resp) > 3 => resp[4] = "200") )
    => ( /\ Len(resp) = 4
         /\ data = sent /\ data # None
         /\ Len(sleeps) = 3 /\ StrictlyIncreasing(sleeps) )

\* C2 as stated: a clean run over a chain of n pages of k records, from an
\* empty store, counts n*k new inserts, and a run that follows a clean run
\* counts none and leaves the store as it was.
C2_CountIsNTimesK ==
    Chain =>
      /\ (pc = "exited" /\ exitCode = 0 /\ ~fetchFailed /\ emptyAtStart)
           => total_upserts = server.n * server.k
      /\ prevClean => (~changed /\ total_upserts = 0 /\ upserts = 0)

\* C2 amended: the count is n*k for chains of at most MAX_PAGES pages, and
\* MAX_PAGES*k for longer ones; the store then holds one document per
\* record loaded.  A run that follows a clean run counts no new insert and
\* leaves the store as it was.
C2_CountIsPagesLoadedTimesK ==
    Chain =>
      /\ (pc = "exited" /\ exitCode = 0 /\ ~fetchFailed /\ emptyAtStart)
           => /\ total_upserts = Min(server.n, MAX_PAGES) * server.k
              /\ Cardinality(store) = total_upserts
              /\ (server.n <= MAX_PAGES => total_upserts = server.n * server.k)
      /\ prevClean => (~changed /\ total_upserts = 0 /\ upserts = 0)

C2_Witness ==
    /\ Chain /\ server.n = 3 /\ server.k = 2
    /\ run = 2 /\ prevClean /\ pc = "exited" /\ exitCode = 0 /\ ~fetchFailed
    /\ Cardinality(store) = 6 /\ total_upserts = 0

\* C3: a run never yields more than MAX_PAGES pages and never requests a
\* page beyond the MAX_PAGES-th; when every payload it received was a page
\* with a non-empty "next", extract_pulses ends having yielded exactly
\* MAX_PAGES pages.
C3_PageCeiling ==
    /\ yielded <= MAX_PAGES
    /\ page_count <= MAX_PAGES
    /\ (pc \in {"fetch", "fetched"} => page_count < MAX_PAGES)
    /\ (stop # "none" /\ cursorAlways)
         => (stop = "cond" /\ yielded = MAX_PAGES /\ logged_pages = MAX_PAGES)

C3_Witness ==
    /\ server.mode = "free" /\ pc = "finish" /\ stop = "cond" /\ cursorAlways
    /\ yielded = MAX_PAGES /\ Truthy(url)

\* a raw record whose identifier is absent, null or the empty string
HasNoIdentifier(p) == "id" \notin DOMAIN p \/ p["id"] = None \/ p["id"] = Str(<<>>)

\* C4: the store never holds a document whose identifier is null, absent
\* or empty, and the step of load_pulses on a record with such an
\* identifier attempts no write and leaves the store and the count alone.
C4_NoIdentifierNeverWritten ==
    /\ [](\A d \in store :
            "_id" \in DOMAIN d /\ d["_id"] # None /\ d["_id"] # Str(<<>>))
    /\ [][ (pc = "load" /\ pulses # <<>> /\ HasNoIdentifier(Head(pulses)))
             => (store' = store /\ writes' = writes /\ upserts' = upserts
                 /\ pc' = "load" /\ pulses' = Tail(pulses)) ]_vars

C4_Witness ==
    /\ pc = "load" /\ pulses = <<>> /\ skips = 1 /\ writes = 1 /\ upserts = 1
    /\ Cardinality(store) = 1

\* a payload extract_pulses does not accept, or the result of a failed fetch
BadData(d) ==
    \/ d = None
    \/ d.type # "dict"
    \/ "results" \notin DOMAIN d.val
    \/ d.val["results"].type # "list"

\* C5: when the fetch of a page failed or its payload is malformed,
\* extract_pulses ends without writing anything from it; from then on the
\* run issues no request and changes nothing in the store, and it ends
\* normally, with exit status 0 and the connection closed.
C5_FailedPageEndsPagination ==
    /\ [][ (pc = "fetched" /\ BadData(data))
             => (pc' = "finish" /\ stop' \in {"invalid", "noresults"}
                 /\ store' = store /\ yielded' = yielded
                 /\ logged_pages' = page_count) ]_vars
    /\ [][ (stop \in {"invalid", "noresults"} /\ run' = run)
             => (store' = store /\ resp' = resp /\ writes' = writes
                 /\ yielded' = yielded /\ pc' = "exited" /\ exitCode' = 0
                 /\ error' = "none" /\ closed' = 1) ]_vars
    /\ [](stop \in {"invalid", "noresults"} => pc \in {"finish", "exited"})

C5_Witness ==
    /\ pc = "exited" /\ stop = "noresults" /\ exitCode = 0 /\ closed = 1
    /\ yielded = 2 /\ Cardinality(store) = 2

\* C6: a fetch_with_retries call issues at most retries requests; a call
\* that got only 429 responses and network failures has issued exactly
\* retries requests when it returns, and it returns None without raising.
C6_SingleRetryBudget ==
    /\ Len(resp) <= 3
    /\ (pc = "fetch" => (Len(resp) = attempt /\ AllTransient(resp)))
    /\ (pc = "fetched" /\ resp # <<>> /\ AllTransient(resp))
         => (Len(resp) = 3 /\ data = None /\ fetchFailed
             /\ exitCode = -1 /\ error = "none")

C6_Witness ==
    /\ pc = "fetched" /\ resp = <<"429", "neterr", "429">> /\ data = None

\* C7: a status that is neither 200 nor 429 is the last response of its
\* call: the call returns None at once, without a sleep after it.
C7_OtherStatusAbandons ==
    /\ \A i \in 1..(Len(resp) - 1) : resp[i] # "other"
    /\ (resp # <<>> /\ Last(resp) = "other")
         => (pc = "fetched" /\ data = None /\ fetchFailed
             /\ Len(sleeps) = Len(resp) - 1)

C7_Witness ==
    /\ pc = "fetched" /\ resp = <<"neterr", "other">> /\ data = None
    /\ sleeps = <<2>>

\* C8: a run that reaches run_etl opens the connection once and closes it
\* once, on every way out; a write error ends the run with the error
\* propagated, the connection closed and nothing fetched or written after.
C8_ConnectionClosedOnce ==
    /\ [](opened <= 1 /\ closed <= opened)
    /\ [](pc \in {"loop", "fetch", "fetched", "load", "finish"}
            => (opened = 1 /\ closed = 0))
    /\ []((pc = "exited" /\ error \notin {"config", "ValueError"})
            => (opened = 1 /\ closed = 1))
    /\ [](error = "db" => (pc = "exited" /\ exitCode = 1 /\ stop = "none"))
    /\ [][ error = "db" => run' = run + 1 ]_vars

C8_Witness ==
    /\ error = "db" /\ pc = "exited" /\ opened = 1 /\ closed = 1
    /\ yielded = 2 /\ store # {}

KeyUnusable == "OTX_API_KEY" \notin DOMAIN env \/ env["OTX_API_KEY"] = <<>>
TimeoutUsable ==
    "REQUEST_TIMEOUT" \notin DOMAIN env \/ IsIntLiteral(env["REQUEST_TIMEOUT"])
NothingDone ==
    opened = 0 /\ ~requested /\ ~changed /\ writes = 0 /\ yielded = 0

\* C9 as stated: without a usable key the process ends at start-up with the
\* configuration error and exit status 1, having issued no request, opened
\* no connection and written nothing; with a key start-up does not end it.
C9_KeyDecidesStartup ==
    /\ KeyUnusable
         => /\ pc \in {"start", "exited"}
            /\ NothingDone
            /\ pc = "exited" => (exitCode = 1 /\ error = "config")
    /\ (~KeyUnusable /\ pc = "exited") => opened = 1

\* C9 amended: the above holds when REQUEST_TIMEOUT is unset or an integer
\* literal; otherwise start-up ends the process with exit status 1 on the
\* ValueError of line 26, key or no key, still before anything is done.
C9_KeyAndTimeoutDecideStartup ==
    /\ KeyUnusable
         => /\ pc \in {"start", "exited"}
            /\ NothingDone
            /\ pc = "exited" => exitCode = 1
            /\ (pc = "exited" /\ TimeoutUsable) => error = "config"
    /\ (~KeyUnusable /\ TimeoutUsable /\ pc = "exited") => opened = 1
    /\ (~TimeoutUsable /\ pc = "exited")
         => (exitCode = 1 /\ error = "ValueError" /\ NothingDone)

C9_Witness ==
    /\ KeyUnusable /\ TimeoutUsable /\ pc = "exited"
    /\ exitCode = 1 /\ error = "config" /\ run = 2 /\ store # {}

\* C10: the store holds at most one document per identifier; a write of
\* load_pulses puts the normalized record in the store in place of any
\* document with its identifier, leaves the other documents alone and adds
\* one to the count exactly when the identifier was new; the count of the
\* call is the number of identifiers gained by the store.
C10_UpsertByIdentifier ==
    /\ [](\A d1, d2 \in store : d1["_id"] = d2["_id"] => d1 = d2)
    /\ [](pc = "load" => upserts = Cardinality(Ids(store)) - idsBefore)
    /\ [][ (pc = "load" /\ pulses # <<>> /\ ~HasNoIdentifier(Head(pulses)))
             => LET t   == transform_pulse(Head(pulses))
                    new == t["_id"] \notin Ids(store)
                IN  \/ /\ error' = "db" /\ store' = store
                    \/ /\ error' = "none" /\ pulses' = Tail(pulses)
                       /\ writes' = writes + 1
                       /\ t \in store'
                       /\ \A d \in store : d["_id"] # t["_id"] => d \in store'
                       /\ Ids(store') = Ids(store) \cup {t["_id"]}
                       /\ upserts' = upserts + (IF new THEN 1 ELSE 0) ]_vars

C10_Witness ==
    /\ pc = "load" /\ pulses = <<>> /\ writes = 2 /\ upserts = 1 /\ idsBefore = 1
    /\ Cardinality(store) = 2 /\ changed

\* the record load_pulses is about to transform has a non-null identifier
AtPulseWithId ==
    /\ pc = "load" /\ pulses # <<>>
    /\ "id" \in DOMAIN Head(pulses) /\ Head(pulses)["id"] # None

\* C11 as stated: for a raw pulse with a non-null identifier, transforming
\* the transformed record gives the transformed record again.
C11_TransformIdempotent ==
    AtPulseWithId
      => LET t == transform_pulse(Head(pulses))
         IN  transform_pulse(t) = t

\* C11 amended: transforming the transformed record keeps its seven other
\* fields and makes _id null, because the transformed record has no "id"
\* key; from that second record on the transform changes nothing more.
C11_TransformLosesIdentifier ==
    AtPulseWithId
      => LET p  == Head(pulses)
             t  == transform_pulse(p)
             tt == transform_pulse(t)
         IN  /\ t["_id"] = p["id"]
             /\ tt = [t EXCEPT !["_id"] = None]
             /\ tt # t
             /\ transform_pulse(tt) = tt

C11_Witness ==
    /\ AtPulseWithId
    /\ Head(pulses)["id"] = Str(<<1>>)
    /\ "tags" \in DOMAIN Head(pulses)
    /\ writes = 1

\* the fields of a normalized record: <<name, raw key, is a list field>>
NormalizedFields ==
    { <<"_id", "id", FALSE>>, <<"name", "name", FALSE>>,
      <<"description", "description", FALSE>>,
      <<"author_name", "author_name", FALSE>>,
      <<"created", "created", FALSE>>, <<"modified", "modified", FALSE>>,
      <<"tags", "tags", TRUE>>, <<"references", "references", TRUE>> }

ExamplePulse == [id |-> Str(<<1>>), name |-> X]
ExampleDocument ==
    [ _id |-> Str(<<1>>), name |-> X, description |-> None, author_name |-> None,
      created |-> None, modified |-> None, tags |-> List(<<>>),
      references |-> List(<<>>) ]

\* C12: the record transform_pulse makes of a raw pulse has exactly the
\* eight fields; each holds the value of its raw key when the raw pulse has
\* that key, else null for a scalar field and the empty list for tags and
\* references; the raw pulse {id: 'p1', name: 'X'} gives the example record.
C12_TransformShape ==
    (pc = "load" /\ pulses # <<>>)
      => LET p == Head(pulses)
             t == transform_pulse(p)
         IN  /\ DOMAIN t = { f[1] : f \in NormalizedFields }
             /\ \A f \in NormalizedFields :
                   t[f[1]] = IF f[2] \in DOMAIN p THEN p[f[2]]
                             ELSE IF f[3] THEN List(<<>>) ELSE None
             /\ p = ExamplePulse => t = ExampleDocument

C12_Witness ==
    /\ pc = "load" /\ pulses = <<>> /\ writes = 1 /\ skips = 0
    /\ store = {ExampleDocument}

\* C13: in one fetch_with_retries call the i-th sleep follows the i-th
\* response, which is a 429 or a network failure, and lasts
\* backoff_factor * 2^(i-1): 2, 4, 8; the sleeps are strictly increasing
\* and a 200 response is followed by no sleep.
C13_ExponentialBackoff ==
    /\ Len(sleeps) <= Len(resp)
    /\ \A i \in 1..Len(sleeps) :
          /\ Transient(resp[i])
          /\ sleeps[i] = backoff_factor * Pow2(i - 1)
          /\ sleeps[i] = <<2, 4, 8>>[i]
    /\ \A i \in 1..Len(resp) : Transient(resp[i]) => i <= Len(sleeps)
    /\ StrictlyIncreasing(sleeps)
    /\ (resp # <<>> /\ Last(resp) = "200")
         => (Len(sleeps) = Len(resp) - 1 /\ pc = "fetched")

C13_Witness ==
    /\ pc = "fetched" /\ resp = <<"neterr", "429", "200">>
    /\ sleeps = <<2, 4>> /\ data = sent /\ data # None

\* C14: load_pulses visits each record of its batch once, whether it skips
\* it or writes it, and when it returns every non-empty identifier of the
\* batch is in the store, wherever the records without identifier stand.
C14_SkipDoesNotAbortBatch ==
    /\ [](pc = "load" => writes + skips + Len(pulses) = batchLen)
    /\ []((pc = "load" /\ pulses = <<>>)
            => (batchIds \subseteq Ids(store) /\ writes + skips = batchLen))
    /\ [][ (pc = "load" /\ pulses # <<>> /\ pc' = "load")
             => (pulses' = Tail(pulses)
                 /\ writes' + skips' = writes + skips + 1
                 /\ (HasNoIdentifier(Head(pulses)) <=> skips' = skips + 1)) ]_vars

C14_Witness ==
    /\ pc = "load" /\ pulses = <<>> /\ batchLen = 2 /\ skips = 1 /\ writes = 1
    /\ batchIds = {Str(<<2>>)} /\ Str(<<2>>) \in Ids(store)

\* the "next" of the page being loaded
NextOfPage == IF "next" \in DOMAIN data.val THEN data.val["next"] ELSE None
NoCursor(v) == v = None \/ v = Str(<<>>)

\* C15: a payload with a results list is yielded and counted whatever the
\* length of the list and whatever its "next"; after it the generator
\* takes "next" as its address, fetches again when that is non-empty and
\* the ceiling is not reached, and ends without a request when it is
\* missing, null or empty, all records of the page having been visited.
C15_EmptyPagesAndLastPage ==
    /\ [][ (pc = "fetched" /\ ~BadData(data))
             => (pc' = "load" /\ yielded' = yielded + 1
                 /\ pulses' = data.val["results"].val /\ stop' = "none") ]_vars
    /\ [][ (pc = "load" /\ pc' = "loop")
             => (pulses = <<>> /\ writes + skips = batchLen
                 /\ batchIds \subseteq Ids(store)
                 /\ page_count' = page_count + 1 /\ page_count' = yielded
                 /\ url' = NextOfPage) ]_vars
    /\ [][ (pc = "loop" /\ NoCursor(url))
             => (pc' = "finish" /\ stop' = "cond" /\ logged_pages' = page_count
                 /\ resp' = resp /\ requested' = requested /\ store' = store) ]_vars
    /\ [][ (pc = "loop" /\ ~NoCursor(url) /\ page_count < 5)
             => (pc' = "fetch" /\ url' = url /\ stop' = "none") ]_vars
    /\ []((stop = "cond" /\ allEmpty /\ cursorAlways) => yielded = 5)

C15_Witness ==
    /\ pc = "loop" /\ allEmpty /\ cursorAlways /\ yielded = 3 /\ page_count = 3
    /\ url = Str(<<2>>) /\ store = {}

\* C16: a request is issued only when no record of a yielded page is left
\* to visit: every page yielded so far has been counted, and the store
\* holds every non-empty identifier of those pages.
C16_OnePageAtATime ==
    /\ [](pc \in {"loop", "fetch", "fetched"}
            => (pulses = <<>> /\ page_count = yielded
                /\ yieldedIds \subseteq Ids(store)))
    /\ [][ resp' # resp /\ resp' # <<>>
             => (pc = "fetch" /\ pulses = <<>> /\ page_count = yielded
                 /\ yieldedIds \subseteq Ids(store) /\ store' = store) ]_vars
    /\ [][ store' # store => (pc = "load" /\ page_count = yielded - 1
                              /\ resp = <<>> /\ resp' = <<>>) ]_vars

C16_Witness ==
    /\ pc = "fetch" /\ resp = <<"429">> /\ page_count = 2 /\ yielded = 2
    /\ yieldedIds = {Str(<<1>>), Str(<<2>>)} /\ Ids(store) = yieldedIds

(***************************************************************************)
(* C17: every run terminates whatever the server answers, after at most    *)
(* MAX_PAGES * retries requests and at most that many sleeps, provided     *)
(* each request, sleep and database write returns (FairSpec).              *)
(***************************************************************************)
C17_RunTerminatesWithinBudget ==
    /\ [](nreq <= MAX_PAGES * retries /\ nsleeps <= MAX_PAGES * retries)
    /\ ((pc # "exited") ~> (pc = "exited"))

\* a run that used the whole budget: two failed attempts before each of four
\* pages, three failed attempts for the fifth
C17_Witness ==
    /\ pc = "exited" /\ exitCode = 0 /\ yielded = MAX_PAGES - 1 /\ fetchFailed
    /\ nreq = MAX_PAGES * retries
    /\ nsleeps = (MAX_PAGES - 1) * (retries - 1) + retries

(***************************************************************************)
(* C18: every request of a fetch_with_retries call goes to one address:    *)
(* the base URL before the first page is yielded, afterwards the "next"    *)
(* of the page yielded last; the count logged at line 81 is the number of  *)
(* pages yielded, so a failed or malformed page is not counted.            *)
(***************************************************************************)
C18_AddressesFollowCursorChain ==
    /\ Len(reqUrls) = Len(resp)
    /\ \A i \in 1..Len(reqUrls) :
          reqUrls[i] = (IF yielded = 0 THEN BASE_URL ELSE lastNext)
    /\ pc = "finish" => logged_pages # -1
    /\ logged_pages # -1 => logged_pages = yielded

\* the third page of a chain is asked for three times at the "next" of the second
C18_Witness ==
    /\ pc = "fetched" /\ data = None /\ yielded = 2 /\ lastNext = Str(<<3>>)
    /\ resp = <<"429", "neterr", "429">>
    /\ reqUrls = <<Str(<<3>>), Str(<<3>>), Str(<<3>>)>>
====
